---- MODULE Spec2Model ----
(***************************************************************************)
(* Model of dock's container lifecycle engine (src/src/container.rs) as it *)
(* is driven by one CLI invocation at a time (src/src/cli.rs): Spec.       *)
(* SpecConcurrent has two invocations side by side on one container.       *)
(*                                                                         *)
(* State is what the program keeps outside its own process: the config     *)
(* store, the per-container root directories and log files, the script     *)
(* files on disk and the OS process table.  An invocation walks through    *)
(* its handler in the steps at which it touches that state (load, save,    *)
(* open log, spawn, pkill, delete); the in-memory copy of the config it    *)
(* loaded travels with it.                                                 *)
(*                                                                         *)
(* Strings that are matched against each other (container names, script    *)
(* paths, command lines, the pkill pattern) are sequences of tokens; the   *)
(* literal "DOCK_CONTAINER=" is one token.                                 *)
(*                                                                         *)
(* Environment assumptions: the storage medium does not fail (save_config, *)
(* create_dir_all, File::create, delete_container succeed), pkill is       *)
(* installed; spawning the sandbox tool (proot) may fail.                  *)
(***************************************************************************)
EXTENDS Naturals, Sequences, FiniteSets

VARIABLES
    configs,   \* config store: [existing names -> ContainerConfig]
    roots,     \* names whose root directory exists
    logs,      \* [Names -> log file: whether it exists, the pids whose output it holds]
    files,     \* script paths that currently exist on disk
    procs,     \* OS process table: the live sandboxed processes
    nextPid,   \* pid the next spawned process gets
    inv,       \* [invocations -> position of a CLI invocation in its handler, its
               \*  arguments, the config it holds in memory, the result it returned]
    created    \* history: names whose create succeeded with no successful remove since

vars == <<configs, roots, logs, files, procs, nextPid, inv, created>>

----------------------------------------------------------------------------
(* Bounds *)

MaxRuns == 2       \* processes spawned in one behaviour

----------------------------------------------------------------------------
(* Values *)

Tag == "DOCK_CONTAINER="

Names == { <<"w">>, <<"w", "2">> }

PlainScript == <<"app.py">>
TagScript == <<Tag, "w", ".py">>
Scripts == { PlainScript, TagScript }
Deletable == { PlainScript }

NoPort == "None"
Ports == { NoPort, "8080:80" }

detect_python_version(script) ==
    IF script = PlainScript THEN "Python3" ELSE "Unknown"

DetectOutcomes(script) == { detect_python_version(script), "DetectionError" }

NoFile == [exists |-> FALSE, out |-> {}]
EmptyFile == [exists |-> TRUE, out |-> {}]

Invocations == { 1 }
AllInvocations == { 1, 2 }

IdleCfg == [id |-> 0, name |-> <<>>, script |-> <<>>, python_version |-> "",
            status |-> "", port_mapping |-> NoPort]

Idle == [pc |-> "idle", op |-> "none", name |-> <<>>, port |-> NoPort,
         config |-> IdleCfg, result |-> "none"]

----------------------------------------------------------------------------
(* Storage and path helpers *)

container_exists(name) == name \in DOMAIN configs

save_config(cfgs, config) ==
    [n \in (DOMAIN cfgs) \cup {config.name} |->
        IF n = config.name THEN config ELSE cfgs[n]]

delete_config(cfgs, name) ==
    [n \in (DOMAIN cfgs) \ {name} |-> cfgs[n]]

filesystem_path(name) == <<"containers/">> \o name \o <<"/fs">>

IsSubstring(pat, str) ==
    \E k \in 0..(Len(str) - Len(pat)) :
        \A j \in 1..Len(pat) : str[k + j] = pat[j]

python_cmd(version) ==
    CASE version = "Python2" -> "python2"
      [] version = "Python3" -> "python3"
      [] OTHER -> "python"

CommandLine(name, version, script) ==
    <<"proot", " ", "-r", " ">> \o filesystem_path(name)
        \o <<" ", python_cmd(version), " ">> \o script

PkillPattern(name) == <<Tag>> \o name

PkillMatches(name, p) == IsSubstring(PkillPattern(name), p.cmdline)

----------------------------------------------------------------------------
Init ==
    /\ configs = << >>
    /\ roots = {}
    /\ logs = [n \in Names |-> NoFile]
    /\ files = Scripts
    /\ procs = {}
    /\ nextPid = 1
    /\ inv = [i \in AllInvocations |-> Idle]
    /\ created = {}

Return(i, op, name, result) ==
    inv' = [inv EXCEPT ![i] = [Idle EXCEPT !.pc = "done", !.op = op, !.name = name,
                                           !.result = result]]

\* the invocation's process ends once execute has returned
Exit(i) ==
    /\ inv[i].pc = "done"
    /\ inv' = [inv EXCEPT ![i] = Idle]
    /\ UNCHANGED <<configs, roots, logs, files, procs, nextPid, created>>

---------------------------------------------------------------------------------------------------------------------------------------------------
(* create *)

\* Uuid::new_v4(): an id that no config on disk or in an invocation's memory
\* carries (the least such number, ids being opaque)
UsedIds ==
    { configs[n].id : n \in DOMAIN configs } \cup { inv[i].config.id : i \in DOMAIN inv }

new_v4 ==
    CHOOSE k \in 1..(Cardinality(UsedIds) + 1) :
        k \notin UsedIds /\ \A j \in 1..(k - 1) : j \in UsedIds

\* create without the container_exists check (to test C1)
create_check_no_exists(name, script, detected) ==
    IF script \notin files THEN "ScriptNotFound"
    ELSE IF detected = "DetectionError" THEN "DetectionError"
    ELSE "Ok"

\* create without the check that the script exists (to test C2)
create_check_no_script(name, script, detected) ==
    IF container_exists(name) THEN "AlreadyExists"
    ELSE IF detected = "DetectionError" THEN "DetectionError"
    ELSE "Ok"

\* the checks of create, in the order the code makes them
create_check(name, script, detected) ==
    IF container_exists(name) THEN "AlreadyExists"
    ELSE IF script \notin files THEN "ScriptNotFound"
    ELSE IF detected = "DetectionError" THEN "DetectionError"
    ELSE "Ok"

\* a config born with another status string (to test C8)
NewConfigCreated(name, script, detected) ==
    [id |-> new_v4, name |-> name, script |-> script, python_version |-> detected,
     status |-> "created", port_mapping |-> NoPort]

NewConfig(name, script, detected) ==
    [id |-> new_v4, name |-> name, script |-> script, python_version |-> detected,
     status |-> "stopped", port_mapping |-> NoPort]

\* create that persists the config before it looks at the script (to test C7)
CreateSavesFirst(i, name, script, detected) ==
    /\ inv[i].pc = "idle"
    /\ LET result == create_check(name, script, detected) IN
       /\ configs' = IF result = "AlreadyExists" THEN configs
                     ELSE save_config(configs, NewConfig(name, script, detected))
       /\ IF result = "Ok"
          THEN /\ roots' = roots \cup {name}
               /\ created' = created \cup {name}
          ELSE UNCHANGED <<roots, created>>
       /\ Return(i, "create", name, result)
    /\ UNCHANGED <<logs, files, procs, nextPid>>

Create(i, name, script, detected) ==
    /\ inv[i].pc = "idle"
    /\ LET result == create_check(name, script, detected) IN
       /\ IF result = "Ok"
          THEN /\ configs' = save_config(configs, NewConfig(name, script, detected))
               /\ roots' = roots \cup {name}
               /\ created' = created \cup {name}
          ELSE UNCHANGED <<configs, roots, created>>
       /\ Return(i, "create", name, result)
    /\ UNCHANGED <<logs, files, procs, nextPid>>

----------------------------------------------------------------------------
(* start *)

\* start without the status check (to test C3)
start_check_no_status(name) ==
    IF ~container_exists(name) THEN "NotFound"
    ELSE IF configs[name].script \notin files THEN "ScriptNotFound"
    ELSE "Ok"

\* start without the check that the script is still there (to test C16)
start_check_no_script(name) ==
    IF ~container_exists(name) THEN "NotFound"
    ELSE IF configs[name].status = "running" THEN "AlreadyRunning"
    ELSE "Ok"

\* start under a per-name lock: refused while another start of the name is
\* between its load and its return (to test C11)
start_check_locked(name) ==
    IF ~container_exists(name) THEN "NotFound"
    ELSE IF configs[name].status = "running" THEN "AlreadyRunning"
    ELSE IF \E j \in AllInvocations :
                inv[j].op = "start" /\ inv[j].name = name
                    /\ inv[j].pc \in {"start_save", "start_log", "start_spawn"}
         THEN "AlreadyRunning"
    ELSE IF configs[name].script \notin files THEN "ScriptNotFound"
    ELSE "Ok"

\* load_config and the checks of start before anything is written
start_check(name) ==
    IF ~container_exists(name) THEN "NotFound"
    ELSE IF configs[name].status = "running" THEN "AlreadyRunning"
    ELSE IF configs[name].script \notin files THEN "ScriptNotFound"
    ELSE "Ok"

StartLoad(i, name, port) ==
    /\ inv[i].pc = "idle"
    /\ LET result == start_check(name) IN
       IF result = "Ok"
       THEN /\ nextPid <= MaxRuns
            /\ inv' = [inv EXCEPT ![i] = [Idle EXCEPT !.pc = "start_save", !.op = "start",
                                          !.name = name, !.port = port,
                                          !.config = configs[name]]]
       ELSE Return(i, "start", name, result)
    /\ UNCHANGED <<configs, roots, logs, files, procs, nextPid, created>>

\* a start without a port that keeps the mapping stored before (to test C13)
RunningConfigKeepsPort(config, port) ==
    [config EXCEPT !.status = "running",
                   !.port_mapping = IF port = NoPort THEN @ ELSE port]

RunningConfig(config, port) ==
    [config EXCEPT !.status = "running", !.port_mapping = port]

\* a start that saves only if the record it loaded is still in the store (to
\* test C19)
StartSaveUnlessRemoved(i) ==
    /\ inv[i].pc = "start_save"
    /\ LET config == RunningConfig(inv[i].config, inv[i].port)
       IN  /\ configs' = IF container_exists(config.name)
                         THEN save_config(configs, config) ELSE configs
           /\ inv' = [inv EXCEPT ![i].pc = "start_log", ![i].config = config]
    /\ UNCHANGED <<roots, logs, files, procs, nextPid, created>>

StartSave(i) ==
    /\ inv[i].pc = "start_save"
    /\ LET config == RunningConfig(inv[i].config, inv[i].port)
       IN  /\ configs' = save_config(configs, config)
           /\ inv' = [inv EXCEPT ![i].pc = "start_log", ![i].config = config]
    /\ UNCHANGED <<roots, logs, files, procs, nextPid, created>>

\* a start whose log path does not depend on the name: it empties every log
\* there is (to test C20)
StartOpenLogAnyName(i) ==
    /\ inv[i].pc = "start_log"
    /\ logs' = [n \in Names |->
                  IF n = inv[i].name \/ logs[n].exists THEN EmptyFile ELSE logs[n]]
    /\ inv' = [inv EXCEPT ![i].pc = "start_spawn"]
    /\ UNCHANGED <<configs, roots, files, procs, nextPid, created>>

\* fs::File::create: creates the log file or truncates the one that is there
StartOpenLog(i) ==
    /\ inv[i].pc = "start_log"
    /\ logs' = [logs EXCEPT ![inv[i].name] = EmptyFile]
    /\ inv' = [inv EXCEPT ![i].pc = "start_spawn"]
    /\ UNCHANGED <<configs, roots, files, procs, nextPid, created>>

\* the process Command::spawn makes: proot with its arguments, DOCK_CONTAINER in
\* its environment, stdout and stderr on the log file
Child(name, config) ==
    [pid |-> nextPid, tag |-> name,
     cmdline |-> CommandLine(name, config.python_version, config.script),
     orphan |-> FALSE]

StartSpawn(i, spawned) ==
    /\ inv[i].pc = "start_spawn"
    /\ IF spawned
       THEN /\ procs' = procs \cup { Child(inv[i].name, inv[i].config) }
            /\ nextPid' = nextPid + 1
            /\ Return(i, "start", inv[i].name, "Ok")
       ELSE /\ UNCHANGED <<procs, nextPid>>
            /\ Return(i, "start", inv[i].name, "LaunchError")
    /\ UNCHANGED <<configs, roots, logs, files, created>>

----------------------------------------------------------------------------
(* stop *)

\* stop without the status check (to test C4)
stop_check_no_status(name) ==
    IF ~container_exists(name) THEN "NotFound" ELSE "Ok"

\* load_config and the check of stop
stop_check(name) ==
    IF ~container_exists(name) THEN "NotFound"
    ELSE IF configs[name].status = "stopped" THEN "AlreadyStopped"
    ELSE "Ok"

StopLoad(i, name) ==
    /\ inv[i].pc = "idle"
    /\ LET result == stop_check(name) IN
       IF result = "Ok"
       THEN inv' = [inv EXCEPT ![i] = [Idle EXCEPT !.pc = "stop_save", !.op = "stop",
                                       !.name = name, !.config = configs[name]]]
       ELSE Return(i, "stop", name, result)
    /\ UNCHANGED <<configs, roots, logs, files, procs, nextPid, created>>

\* a stop that writes the record back under a fresh id (to test C14)
StoppedConfigNewId(config) == [config EXCEPT !.status = "stopped", !.id = new_v4]

StoppedConfig(config) == [config EXCEPT !.status = "stopped"]

StopSave(i) ==
    /\ inv[i].pc = "stop_save"
    /\ LET config == StoppedConfig(inv[i].config)
       IN  /\ configs' = save_config(configs, config)
           /\ inv' = [inv EXCEPT ![i].pc = "stop_kill", ![i].config = config]
    /\ UNCHANGED <<roots, logs, files, procs, nextPid, created>>

\* pkill -f PATTERN: SIGTERM to every process whose command line matches;
\* the table that is left
Pkill(name, table) == { p \in table : ~PkillMatches(name, p) }

\* stop that takes pkill's exit status 1 (nothing matched) for a failure (to test C10)
pkill_result_checked(name, table) ==
    IF \E p \in table : PkillMatches(name, p) THEN "Ok" ELSE "KillError"

\* Command::output()? fails only if pkill cannot be run; its exit status (1 when
\* nothing matched) is not looked at
pkill_result(name, table) == "Ok"

StopKill(i) ==
    /\ inv[i].pc = "stop_kill"
    /\ procs' = Pkill(inv[i].name, procs)
    /\ Return(i, "stop", inv[i].name, pkill_result(inv[i].name, procs))
    /\ UNCHANGED <<configs, roots, logs, files, nextPid, created>>

----------------------------------------------------------------------------
(* remove *)

\* remove without the status check (to test C5)
remove_check_no_status(name) ==
    IF ~container_exists(name) THEN "NotFound" ELSE "Ok"

\* load_config and the check of remove
remove_check(name) ==
    IF ~container_exists(name) THEN "NotFound"
    ELSE IF configs[name].status = "running" THEN "CannotRemoveRunning"
    ELSE "Ok"

RemoveLoad(i, name) ==
    /\ inv[i].pc = "idle"
    /\ LET result == remove_check(name) IN
       IF result = "Ok"
       THEN inv' = [inv EXCEPT ![i] = [Idle EXCEPT !.pc = "remove_delete",
                                       !.op = "remove", !.name = name,
                                       !.config = configs[name]]]
       ELSE Return(i, "remove", name, result)
    /\ UNCHANGED <<configs, roots, logs, files, procs, nextPid, created>>

\* Storage::delete_container: the config record, the root tree and the log file
\* go; a process that has the log open keeps the unlinked file
RemoveDelete(i) ==
    /\ inv[i].pc = "remove_delete"
    /\ LET name == inv[i].name IN
       IF container_exists(name)
       THEN /\ configs' = delete_config(configs, name)
            /\ roots' = roots \ {name}
            /\ logs' = [logs EXCEPT ![name] = NoFile]
            /\ procs' = { IF p.tag = name THEN [p EXCEPT !.orphan = TRUE] ELSE p :
                          p \in procs }
            /\ created' = created \ {name}
            /\ Return(i, "remove", name, "Ok")
       ELSE /\ UNCHANGED <<configs, roots, logs, procs, created>>
            /\ Return(i, "remove", name, "NotFound")
    /\ UNCHANGED <<files, nextPid>>

-----
(* list, enter, logs *)

List(i) ==
    /\ inv[i].pc = "idle"
    /\ Return(i, "list", <<>>, "Ok")
    /\ UNCHANGED <<configs, roots, logs, files, procs, nextPid, created>>

Enter(i, name) ==
    /\ inv[i].pc = "idle"
    /\ Return(i, "enter", name, IF container_exists(name) THEN "Ok" ELSE "NotFound")
    /\ UNCHANGED <<configs, roots, logs, files, procs, nextPid, created>>

\* logs that loads the config first, as start, stop and remove do (to test C15)
LogsLoadsConfig(i, name) ==
    /\ inv[i].pc = "idle"
    /\ Return(i, "logs", name,
              IF ~container_exists(name) THEN "NotFound"
              ELSE IF ~logs[name].exists THEN "NoLogs" ELSE "Ok")
    /\ UNCHANGED <<configs, roots, logs, files, procs, nextPid, created>>

Logs(i, name) ==
    /\ inv[i].pc = "idle"
    /\ Return(i, "logs", name, IF ~logs[name].exists THEN "NoLogs" ELSE "Ok")
    /\ UNCHANGED <<configs, roots, logs, files, procs, nextPid, created>>

----------------------------------------------------------------------------
(* The environment: the operator deletes and restores app.py (the other    *)
(* script stays in place), a sandboxed process writes to the log it was    *)
(* given and may end by itself.                                            *)

\* an invocation that has returned exits before anything else happens (its exit
\* touches nothing but its own record)
NoneReturning == \A i \in AllInvocations : inv[i].pc # "done"

ScriptDeleted(script) ==
    /\ NoneReturning
    /\ script \in files \cap Deletable
    /\ files' = files \ {script}
    /\ UNCHANGED <<configs, roots, logs, procs, nextPid, inv, created>>

ScriptWritten(script) ==
    /\ NoneReturning
    /\ script \notin files
    /\ files' = files \cup {script}
    /\ UNCHANGED <<configs, roots, logs, procs, nextPid, inv, created>>

ProcOutput(p) ==
    /\ NoneReturning
    /\ p \in procs
    /\ ~p.orphan
    /\ logs[p.tag].exists
    /\ logs' = [logs EXCEPT ![p.tag].out = @ \cup {p.pid}]
    /\ UNCHANGED <<configs, roots, files, procs, nextPid, inv, created>>

ProcExit(p) ==
    /\ NoneReturning
    /\ p \in procs
    /\ procs' = procs \ {p}
    /\ UNCHANGED <<configs, roots, logs, files, nextPid, inv, created>>

----------------------------------------------------------------------------
\* what one invocation of the CLI can do next (Cli::execute)
execute(i) ==
    \/ \E name \in Names, script \in Scripts :
           \E d \in DetectOutcomes(script) : Create(i, name, script, d)
    \/ \E name \in Names, port \in Ports : StartLoad(i, name, port)
    \/ StartSave(i)
    \/ StartOpenLog(i)
    \/ \E spawned \in BOOLEAN : StartSpawn(i, spawned)
    \/ \E name \in Names : StopLoad(i, name)
    \/ StopSave(i)
    \/ StopKill(i)
    \/ \E name \in Names : RemoveLoad(i, name)
    \/ RemoveDelete(i)
    \/ List(i)
    \/ \E name \in Names : Enter(i, name)
    \/ \E name \in Names : Logs(i, name)
    \/ Exit(i)

Environment ==
    \/ \E script \in Scripts : ScriptDeleted(script)
    \/ \E script \in Scripts : ScriptWritten(script)
    \/ \E p \in procs : ProcOutput(p)
    \/ \E p \in procs : ProcExit(p)

\* one invocation at a time: every operation runs to completion before the next
Next ==
    \/ \E i \in Invocations : execute(i)
    \/ Environment

Spec == Init /\ [][Next]_vars

----------------------------------------------------------------------------
(* Two invocations at once: two processes of the binary, started by the    *)
(* operator side by side, each running one command at a time on the same   *)
(* container.  Nothing in the handlers locks the store, so their steps     *)
(* interleave freely.                                                      *)

RaceName == <<"w">>

\* what one of two side-by-side invocations can do next on the contended name
race(i) ==
    \/ \E d \in DetectOutcomes(PlainScript) : Create(i, RaceName, PlainScript, d)
    \/ \E port \in Ports : StartLoad(i, RaceName, port)
    \/ StartSave(i)
    \/ StartOpenLog(i)
    \/ \E spawned \in BOOLEAN : StartSpawn(i, spawned)
    \/ StopLoad(i, RaceName)
    \/ StopSave(i)
    \/ StopKill(i)
    \/ RemoveLoad(i, RaceName)
    \/ RemoveDelete(i)
    \/ Exit(i)

NextConcurrent ==
    \/ \E i \in AllInvocations : race(i)
    \/ \E p \in procs : ProcExit(p)

SpecConcurrent == Init /\ [][NextConcurrent]_vars

----------------------------------------------------------------------------
(* Properties.  A step is attributed to an operation by what the invocation *)
(* record shows before and after it.                                        *)

\* invocation i enters operation op on name n in this step (and may return in it)
Begins(i, op, n) ==
    /\ inv[i].pc = "idle"
    /\ inv'[i].pc # "idle"
    /\ inv'[i].op = op
    /\ inv'[i].name = n

\* invocation i returns from op in this step
Returns(i, op) ==
    /\ inv[i].pc # "done"
    /\ inv'[i].pc = "done"
    /\ inv'[i].op = op

\* invocation i has returned result from op on name n
Returned(i, op, n, result) ==
    /\ inv[i].pc = "done"
    /\ inv[i].op = op
    /\ inv[i].name = n
    /\ inv[i].result = result

Tagged(table, n) == { p \in table : p.tag = n }

\* C1: a create that returns Ok leaves a config for its name; a create on a name
\* whose config exists returns AlreadyExists and leaves the config store (id,
\* script, runtime version, status and port mapping of every record) as it was.
C1_CreateOnceOnly ==
    [][\A i \in AllInvocations, n \in Names :
          Begins(i, "create", n) =>
             /\ inv'[i].result = "Ok" => container_exists(n)'
             /\ container_exists(n) =>
                   /\ inv'[i].result = "AlreadyExists"
                   /\ configs' = configs]_vars

C1_Witness ==
    \E i \in AllInvocations, n \in Names :
        /\ Returned(i, "create", n, "AlreadyExists")
        /\ container_exists(n)

\* C2: create with a script path that does not exist, on a name without a config,
\* returns ScriptNotFound and leaves neither a config nor a root directory for
\* the name.
C2_CreateScriptNotFound ==
    [][\A i \in AllInvocations, n \in Names, script \in Scripts :
          \A d \in DetectOutcomes(script) :
             (Begins(i, "create", n) /\ script \notin files /\ ~container_exists(n)
                 /\ Create(i, n, script, d)) =>
                /\ inv'[i].result = "ScriptNotFound"
                /\ ~container_exists(n)'
                /\ n \notin roots']_vars

C2_Witness ==
    \E i \in AllInvocations, n \in Names :
        /\ Returned(i, "create", n, "ScriptNotFound")
        /\ ~container_exists(n)
        /\ n \notin roots

\* C3: start on a container whose persisted status is running returns
\* AlreadyRunning in its first step; the process table, the config store and the
\* log files are as before.
C3_StartAlreadyRunning ==
    [][\A i \in AllInvocations, n \in Names :
          (Begins(i, "start", n) /\ container_exists(n)
              /\ configs[n].status = "running") =>
             /\ inv'[i].pc = "done"
             /\ inv'[i].result = "AlreadyRunning"
             /\ procs' = procs
             /\ configs' = configs
             /\ logs' = logs]_vars

C3_Witness ==
    \E i \in AllInvocations, n \in Names :
        /\ Returned(i, "start", n, "AlreadyRunning")
        /\ configs[n].status = "running"
        /\ configs[n].port_mapping # NoPort
        /\ logs[n].out # {}

\* C4: stop on a container whose persisted status is stopped returns
\* AlreadyStopped in its first step; no process is signalled and the config
\* store is as before.
C4_StopAlreadyStopped ==
    [][\A i \in AllInvocations, n \in Names :
          (Begins(i, "stop", n) /\ container_exists(n)
              /\ configs[n].status = "stopped") =>
             /\ inv'[i].pc = "done"
             /\ inv'[i].result = "AlreadyStopped"
             /\ procs' = procs
             /\ configs' = configs]_vars

C4_Witness ==
    \E i \in AllInvocations, n \in Names :
        /\ Returned(i, "stop", n, "AlreadyStopped")
        /\ configs[n].status = "stopped"
        /\ procs # {}

\* C5: remove on a running container returns CannotRemoveRunning and deletes
\* nothing; a stop that returns Ok leaves the status stopped, a remove on a stopped
\* container goes on to delete and returns Ok, and then the config, the root
\* directory and the log file of the name are gone.
C5_RemoveOnlyStopped ==
    [][\A i \in AllInvocations, n \in Names :
          /\ (Begins(i, "remove", n) /\ container_exists(n)
                 /\ configs[n].status = "running") =>
                /\ inv'[i].pc = "done"
                /\ inv'[i].result = "CannotRemoveRunning"
                /\ configs' = configs
                /\ roots' = roots
                /\ logs' = logs
          /\ (Returns(i, "stop") /\ inv'[i].name = n /\ inv'[i].result = "Ok") =>
                configs'[n].status = "stopped"
          /\ (Begins(i, "remove", n) /\ container_exists(n)
                 /\ configs[n].status = "stopped") =>
                inv'[i].pc = "remove_delete"
          /\ (Returns(i, "remove") /\ inv[i].pc = "remove_delete" /\ inv[i].name = n) =>
                /\ inv'[i].result = "Ok"
                /\ ~container_exists(n)'
                /\ n \notin roots'
                /\ ~logs'[n].exists]_vars

C5_Witness ==
    \E i \in AllInvocations, n \in Names :
        /\ Returned(i, "remove", n, "Ok")
        /\ ~container_exists(n)
        /\ n \notin roots
        /\ ~logs[n].exists
        /\ \E p \in procs : p.tag = n /\ p.orphan

\* C6: when stop returns Ok for a name, no live process carries the tag
\* DOCK_CONTAINER=<name>.
C6_StopLeavesNoTaggedProcess ==
    [][\A i \in AllInvocations, n \in Names :
          (Returns(i, "stop") /\ inv'[i].name = n /\ inv'[i].result = "Ok") =>
             Tagged(procs', n) = {}]_vars

C8_StatusMachine ==
    [][\A n \in Names :
          /\ container_exists(n)' => configs'[n].status \in {"stopped", "running"}
          /\ (~container_exists(n) /\ container_exists(n)') =>
                /\ configs'[n].status = "stopped"
                /\ \E i \in AllInvocations :
                      Returns(i, "create") /\ inv'[i].name = n /\ inv'[i].result = "Ok"
          /\ (container_exists(n) /\ container_exists(n)'
                 /\ configs[n].status = "stopped" /\ configs'[n].status = "running") =>
                \E i \in AllInvocations :
                    inv[i].pc = "start_save" /\ inv[i].name = n /\ inv'[i].pc = "start_log"
          /\ (container_exists(n) /\ container_exists(n)'
                 /\ configs[n].status = "running" /\ configs'[n].status = "stopped") =>
                \E i \in AllInvocations :
                    inv[i].pc = "stop_save" /\ inv[i].name = n /\ inv'[i].pc = "stop_kill"
          /\ (container_exists(n) /\ ~container_exists(n)') =>
                /\ configs[n].status = "stopped"
                /\ \E i \in AllInvocations :
                      inv[i].pc = "remove_delete" /\ inv[i].name = n
                          /\ Returns(i, "remove")]_vars

C8_Witness ==
    \E i \in AllInvocations, n \in Names :
        /\ Returned(i, "stop", n, "Ok")
        /\ configs[n].status = "stopped"
        /\ \E m \in Names : container_exists(m) /\ configs[m].status = "running"

\* The order of writes in start and stop: once a start is past its save, and
\* until it returns, the stored status is running with the port of the call; once
\* a stop is past its save the stored status is stopped; a start that returns
\* LaunchError has spawned nothing and leaves the status running.
StatusWrittenFirst ==
    [][\A i \in AllInvocations, n \in Names :
          /\ (inv'[i].op = "start" /\ inv'[i].name = n
                 /\ inv'[i].pc \in {"start_log", "start_spawn"}) =>
                /\ container_exists(n)'
                /\ configs'[n].status = "running"
                /\ configs'[n].port_mapping = inv'[i].port
          /\ (inv[i].pc = "start_save" /\ inv'[i].pc = "start_log") =>
                (logs' = logs /\ procs' = procs)
          /\ (inv'[i].op = "stop" /\ inv'[i].name = n /\ inv'[i].pc = "stop_kill") =>
                (container_exists(n)' /\ configs'[n].status = "stopped")
          /\ (inv[i].pc = "stop_save" /\ inv'[i].pc = "stop_kill") => procs' = procs
          /\ (Returns(i, "start") /\ inv'[i].name = n
                 /\ inv'[i].result = "LaunchError") =>
                /\ procs' = procs
                /\ configs'[n].status = "running"]_vars

\* C9: the status write comes before the process action in start and stop, and a
\* start that returns LaunchError leaves the status running and no process tagged
\* for the name.
C9_StatusBeforeProcess ==
    [][\A i \in AllInvocations, n \in Names :
          /\ (inv'[i].op = "start" /\ inv'[i].name = n
                 /\ inv'[i].pc \in {"start_log", "start_spawn"}) =>
                /\ container_exists(n)'
                /\ configs'[n].status = "running"
                /\ configs'[n].port_mapping = inv'[i].port
          /\ (inv'[i].op = "stop" /\ inv'[i].name = n /\ inv'[i].pc = "stop_kill") =>
                (container_exists(n)' /\ configs'[n].status = "stopped")
          /\ (Returns(i, "start") /\ inv'[i].name = n
                 /\ inv'[i].result = "LaunchError") =>
                /\ configs'[n].status = "running"
                /\ Tagged(procs', n) = {}]_vars

\* C10: with the status running and no process tagged for the name, stop is
\* admitted, returns Ok and leaves the status stopped; a start on a stopped
\* container is not answered AlreadyRunning and goes on to its save if the script
\* is there; a start that returns Ok leaves the status running and a new live
\* process tagged for the name.
C10_StopStartRecovers ==
    [][\A i \in AllInvocations, n \in Names :
          /\ (Begins(i, "stop", n) /\ container_exists(n)
                 /\ configs[n].status = "running" /\ Tagged(procs, n) = {}) =>
                inv'[i].pc = "stop_save"
          /\ (Returns(i, "stop") /\ inv[i].pc = "stop_kill" /\ inv[i].name = n
                 /\ Tagged(procs, n) = {}) =>
                /\ inv'[i].result = "Ok"
                /\ configs'[n].status = "stopped"
          /\ (Begins(i, "start", n) /\ container_exists(n)
                 /\ configs[n].status = "stopped") =>
                /\ inv'[i].result # "AlreadyRunning"
                /\ configs[n].script \in files => inv'[i].pc = "start_save"
          /\ (Returns(i, "start") /\ inv'[i].name = n /\ inv'[i].result = "Ok") =>
                /\ configs'[n].status = "running"
                /\ \E p \in procs' \ procs : p.tag = n]_vars

\* a stop has returned Ok on a container for which no process was ever spawned:
\* its status was running only because a launch had failed
C10_Witness ==
    \E i \in AllInvocations, n \in Names :
        /\ Returned(i, "stop", n, "Ok")
        /\ configs[n].status = "stopped"
        /\ nextPid = 1

\* C11: two starts of one name from side-by-side invocations are not atomic over
\* load, check and save: a start that finds the stored status stopped goes on
\* to its save although another start of the name is already past its load;
\* the save of a start writes running whatever the stored status has become
\* meanwhile; a start that returns Ok adds a process tagged for the name and
\* leaves those already there.  (The witness: both have returned Ok and two
\* live processes carry the tag of the name.)
C11_ConcurrentStartsBothLaunch ==
    [][\A i \in AllInvocations, n \in Names :
          /\ (Begins(i, "start", n) /\ container_exists(n)
                 /\ configs[n].status = "stopped" /\ configs[n].script \in files
                 /\ \E j \in AllInvocations \ {i} :
                        inv[j].op = "start" /\ inv[j].name = n
                            /\ inv[j].pc = "start_save") =>
                /\ inv'[i].pc = "start_save"
                /\ inv'[i].config.status = "stopped"
          /\ (inv[i].pc = "start_save" /\ inv[i].name = n
                 /\ inv'[i].pc = "start_log") =>
                (container_exists(n)' /\ configs'[n].status = "running")
          /\ (Returns(i, "start") /\ inv'[i].name = n /\ inv'[i].result = "Ok") =>
                /\ procs \subseteq procs'
                /\ \E p \in procs' \ procs : p.tag = n /\ ~p.orphan]_vars

C11_Witness ==
    \E n \in Names :
        /\ \A i \in AllInvocations : Returned(i, "start", n, "Ok")
        /\ container_exists(n)
        /\ configs[n].status = "running"
        /\ \E p, q \in procs :
              p.pid # q.pid /\ p.tag = n /\ q.tag = n /\ ~p.orphan /\ ~q.orphan

\* C12: the pkill of stop(a) terminates every process whose tag string
\* DOCK_CONTAINER=<its name> contains DOCK_CONTAINER=a, so also the process of
\* a running container whose name has a as a prefix; no stored config changes
\* in that step (the other container's status stays running).
C12_StopTerminatesBySubstringOfTag ==
    [][\A i \in AllInvocations, a \in Names :
          (inv[i].pc = "stop_kill" /\ inv[i].name = a /\ Returns(i, "stop")) =>
             /\ \A p \in procs :
                   IsSubstring(PkillPattern(a), <<Tag>> \o p.tag) => p \notin procs'
             /\ configs' = configs]_vars

\* C13: the save of start(n, port) stores exactly the port of the call as the
\* port mapping (none if the call has none, whatever was stored); the save and
\* the pkill of stop leave the stored mapping as it is; no other step changes
\* the mapping of a container that stays, so after start(n, p); stop(n) it is p.
C13_PortMappingSetByStartOnly ==
    [][\A n \in Names :
          /\ \A i \in AllInvocations :
                (inv[i].pc = "start_save" /\ inv[i].name = n
                    /\ inv'[i].pc = "start_log") =>
                   configs'[n].port_mapping = inv[i].port
          /\ \A i \in AllInvocations, port \in Ports :
                (Begins(i, "start", n) /\ StartLoad(i, n, port)
                    /\ inv'[i].pc = "start_save") =>
                   inv'[i].port = port
          /\ \A i \in AllInvocations :
                (inv[i].op = "stop" /\ inv[i].name = n
                    /\ inv[i].pc \in {"stop_save", "stop_kill"}
                    /\ inv'[i].pc # inv[i].pc) =>
                   configs'[n].port_mapping = configs[n].port_mapping
          /\ (container_exists(n) /\ container_exists(n)'
                 /\ configs'[n].port_mapping # configs[n].port_mapping) =>
                \E i \in AllInvocations :
                    inv[i].pc = "start_save" /\ inv[i].name = n
                        /\ inv'[i].pc = "start_log"]_vars

C13_Witness ==
    \E i \in AllInvocations, n \in Names :
        /\ Returned(i, "stop", n, "Ok")
        /\ configs[n].status = "stopped"
        /\ configs[n].port_mapping = "8080:80"

\* C14: while a container's record stays (from its create to its remove) its
\* id, name, script and runtime version do not change; the save of a start
\* rewrites the stored record with only status and port mapping modified, the
\* save of a stop with only status modified.
C14_IdentityFieldsImmutable ==
    [][\A n \in Names :
          /\ (container_exists(n) /\ container_exists(n)') =>
                /\ configs'[n].id = configs[n].id
                /\ configs'[n].name = configs[n].name
                /\ configs'[n].script = configs[n].script
                /\ configs'[n].python_version = configs[n].python_version
          /\ \A i \in AllInvocations :
                /\ (inv[i].pc = "start_save" /\ inv[i].name = n
                       /\ inv'[i].pc = "start_log") =>
                      configs'[n] = [configs[n] EXCEPT !.status = "running",
                                                      !.port_mapping = inv[i].port]
                /\ (inv[i].pc = "stop_save" /\ inv[i].name = n
                       /\ inv'[i].pc = "stop_kill") =>
                      configs'[n] = [configs[n] EXCEPT !.status = "stopped"]]_vars

\* a container that has been started and stopped, next to an older one
C14_Witness ==
    \E i \in AllInvocations, n \in Names :
        /\ Returned(i, "stop", n, "Ok")
        /\ configs[n].id = 2
        /\ configs[n].name = n
        /\ configs[n].python_version = detect_python_version(configs[n].script)

\* C15: logs on a name whose log file does not exist (a container never
\* started, or a name without a config) returns the "no logs" result, which is
\* a success, in its one step and changes nothing on disk or in the process
\* table.
C15_LogsMissingFileIsNoLogs ==
    [][\A i \in AllInvocations, n \in Names :
          (Begins(i, "logs", n) /\ ~logs[n].exists) =>
             /\ inv'[i].pc = "done"
             /\ inv'[i].result = "NoLogs"
             /\ UNCHANGED <<configs, roots, logs, files, procs, nextPid, created>>]_vars

C15_Witness ==
    \E i \in AllInvocations, n \in Names :
        /\ Returned(i, "logs", n, "NoLogs")
        /\ ~container_exists(n)
        /\ \E m \in Names : container_exists(m) /\ ~logs[m].exists

\* C16: start on a stopped container whose script path does not exist returns
\* ScriptNotFound in its first step: the config store (status stopped, port
\* mapping), the log files and the process table are as before.
C16_StartScriptNotFoundWritesNothing ==
    [][\A i \in AllInvocations, n \in Names :
          (Begins(i, "start", n) /\ container_exists(n)
              /\ configs[n].status = "stopped" /\ configs[n].script \notin files) =>
             /\ inv'[i].pc = "done"
             /\ inv'[i].result = "ScriptNotFound"
             /\ configs' = configs
             /\ logs' = logs
             /\ procs' = procs]_vars

\* the refused start finds a mapping stored and output in the log, and leaves both
C16_Witness ==
    \E i \in AllInvocations, n \in Names :
        /\ Returned(i, "start", n, "ScriptNotFound")
        /\ configs[n].status = "stopped"
        /\ configs[n].script \notin files
        /\ configs[n].port_mapping # NoPort
        /\ logs[n].out # {}

\* C17: a start that is past its save opens the log of its name with
\* truncation before it spawns; when it returns, with Ok or with LaunchError,
\* the log exists and holds no output of an earlier run (it is empty after a
\* failed spawn, and holds at most output of the new process otherwise); from
\* then on output in the log is never older than a live process of the name.
C17_LogHoldsOnlyLatestRun ==
    [][\A i \in AllInvocations, n \in Names :
          /\ (inv[i].pc = "start_log" /\ inv[i].name = n
                 /\ inv'[i].pc = "start_spawn") =>
                (logs'[n] = EmptyFile /\ procs' = procs)
          /\ (inv[i].pc = "start_spawn" /\ inv[i].name = n /\ Returns(i, "start")) =>
                /\ logs'[n].exists
                /\ inv'[i].result = "LaunchError" => logs'[n].out = {}
                /\ inv'[i].result = "Ok" =>
                      logs'[n].out \subseteq { p.pid : p \in procs' \ procs }
          /\ \A k \in logs'[n].out :
                \A p \in Tagged(procs', n) : ~p.orphan => p.pid <= k]_vars

\* the names that anything on disk, in the process table or in an invocation
\* refers to
InUse ==
    (DOMAIN configs) \cup roots \cup { p.tag : p \in procs }
        \cup { n \in Names : logs[n].exists }
        \cup { n \in Names : \E i \in AllInvocations : inv[i].name = n }

NamesApart ==
    \A a, b \in InUse : a # b => (~IsSubstring(a, b) /\ ~IsSubstring(b, a))

BetweenOperations == \A i \in AllInvocations : inv[i].pc \in {"idle", "done"}

\* C18: with one operation at a time and no name in use that is a substring of
\* another, in every state between operations a live process tagged for a name
\* implies a config of that name with status running; so at most one live
\* process carries the tag of a name, and after a remove that returned Ok none
\* does.
C18_LiveProcessImpliesRunning ==
    (BetweenOperations /\ NamesApart) =>
        \A n \in Names :
            /\ Tagged(procs, n) # {} =>
                  (container_exists(n) /\ configs[n].status = "running")
            /\ Cardinality(Tagged(procs, n)) <= 1
            /\ (\E i \in AllInvocations : Returned(i, "remove", n, "Ok")) =>
                  Tagged(procs, n) = {}

\* C19: with a start and a remove of one name interleaved, once a remove of
\* the name has returned Ok there is no config record of the name and no
\* process tagged for it, a record comes back only by a create that returns Ok,
\* and no process is spawned for the name while it has no record.
C19_RemovedStaysRemoved ==
    [][\A n \in Names :
          /\ \A j \in AllInvocations :
                (Returns(j, "remove") /\ inv'[j].name = n /\ inv'[j].result = "Ok") =>
                   (~container_exists(n)' /\ Tagged(procs', n) = {})
          /\ (~container_exists(n) /\ container_exists(n)') =>
                \E i \in AllInvocations :
                    Returns(i, "create") /\ inv'[i].name = n /\ inv'[i].result = "Ok"
          /\ ~container_exists(n) =>
                \A p \in Tagged(procs', n) : \E q \in procs : q.pid = p.pid]_vars

\* C19 as amended: a remove that returns Ok leaves no record, root or log of
\* the name at that moment; the save of a start writes the record it holds
\* whether or not the record is still in the store, and that start goes on to
\* spawn; a record that is absent comes back only by a create that returns Ok
\* or by the save of a start or stop that had loaded it before the delete.
C19_RemovedComesBackBySave ==
    [][\A n \in Names :
          /\ \A j \in AllInvocations :
                (Returns(j, "remove") /\ inv'[j].name = n /\ inv'[j].result = "Ok") =>
                   (~container_exists(n)' /\ n \notin roots' /\ ~logs'[n].exists)
          /\ \A i \in AllInvocations :
                /\ (inv[i].pc = "start_save" /\ inv[i].name = n
                       /\ inv'[i].pc = "start_log") =>
                      /\ container_exists(n)'
                      /\ configs'[n] = RunningConfig(inv[i].config, inv[i].port)
                /\ (inv[i].pc = "start_spawn" /\ inv[i].name = n
                       /\ Returns(i, "start") /\ inv'[i].result = "Ok") =>
                      \E p \in procs' \ procs : p.tag = n /\ ~p.orphan
          /\ (~container_exists(n) /\ container_exists(n)') =>
                \/ \E i \in AllInvocations :
                       Returns(i, "create") /\ inv'[i].name = n /\ inv'[i].result = "Ok"
                \/ \E i \in AllInvocations :
                       /\ inv[i].name = n
                       /\ \/ inv[i].pc = "start_save" /\ inv'[i].pc = "start_log"
                          \/ inv[i].pc = "stop_save" /\ inv'[i].pc = "stop_kill"
                       /\ configs'[n] = inv'[i].config
                       /\ configs'[n].id = inv[i].config.id]_vars

\* a removed container is back: no create since the remove that returned Ok, yet
\* a record with status running and a live process, and no root directory
C19_Witness ==
    \E n \in Names, i, j \in AllInvocations :
        /\ Returned(j, "remove", n, "Ok")
        /\ Returned(i, "start", n, "Ok")
        /\ n \notin created
        /\ container_exists(n)
        /\ configs[n].status = "running"
        /\ n \notin roots
        /\ \E p \in procs : p.tag = n /\ ~p.orphan

\* C20: a step of an invocation that operates on name a (create, start, stop,
\* remove, enter or logs, whatever it returns) leaves, for every other name b,
\* the config record (its presence and every field), the root directory and
\* the log file as they were.
C20_OtherNamesUntouched ==
    [][\A i \in AllInvocations, a \in Names, b \in Names :
          (a # b /\ inv'[i] # inv[i] /\ (inv[i].name = a \/ inv'[i].name = a)) =>
             /\ container_exists(b)' <=> container_exists(b)
             /\ container_exists(b) => configs'[b] = configs[b]
             /\ (b \in roots') <=> (b \in roots)
             /\ logs'[b] = logs[b]]_vars

\* a start of a has opened its log while b is running with output in its log
C20_Witness ==
    \E i \in AllInvocations, a \in Names, b \in Names :
        /\ a # b
        /\ inv[i].pc = "start_spawn"
        /\ inv[i].name = a
        /\ container_exists(b)
        /\ configs[b].status = "running"
        /\ b \in roots
        /\ logs[b].out # {}

====
